---- MODULE Spec2Model ----
(***************************************************************************)
(* Model of github.com/alecthomas/app (src/app.go).                        *)
(*                                                                         *)
(* src/app.go holds two Application types:                                 *)
(*   - the Configurable API (lines 1-176): modules []interface{},          *)
(*     optional Configure/Start/Stop, a Stop loop after the entry point;   *)
(*   - the Module API (lines 178-402): modules map[Module][]Module,        *)
(*     declared Dependencies, topoSortModules, no Stop loop.               *)
(* The variable api says which of the two an Application value is; the     *)
(* actions with suffix C are the first one's, with suffix M the second's.  *)
(***************************************************************************)
EXTENDS Naturals, Sequences, FiniteSets

\* ---- bounds ----
MaxModules == 3      \* installed modules per Application
MaxDeps == 2         \* length of a Dependencies() result
MaxArgs == 2         \* modules passed to one Install call of the Configurable API

\* ---- the module types of the model and their method sets ----
ModuleTypes == {"A", "B", "C", "D"}
EntryTypes == {"App", "Svc", "Bare"}
\* types with a Configure method (they satisfy Configurable / Module)
ConfigurableTypes == {"A", "B", "D", "App"}
\* types for which MethodByName("Start") is valid
StartTypes == {"A", "B", "C", "App", "Svc"}
\* types for which MethodByName("Stop") is valid
StopTypes == {"A", "B", "C", "Svc"}

\* argument vectors handed to RunWithArgs
Args == {<< >>, <<"--test=flag">>, <<"--bogus">>}

VARIABLES api, modules, modulesMap, pc, order, i, args, entry, err, log,
          flag,      \* the string the --test flag is bound to (testModuleA's field)
          db,        \* the DB value the entry point was called with, <<"-">> if none
          started    \* the modules whose Start or Stop was ever invoked

vars == <<api, modules, modulesMap, pc, order, i, args, entry, err, log, flag, db, started>>

\* ---- errors: the message and, for the missing-dependency message, its two %s ----
Error(msg) == [msg |-> msg, edge |-> "-", node |-> "-"]
nil == Error("nil")

\* ---- one invocation made by the orchestrator ----
Call(op, m, failed) == [op |-> op, m |-> m, err |-> failed]

\* ---- sequences without repetition over S, of length at most n ----
InjSeqs(S, n) ==
  {s \in UNION {[1..k -> S] : k \in 0..n} :
     \A a, b \in DOMAIN s : a # b => s[a] # s[b]}

Range(s) == {s[k] : k \in DOMAIN s}

Init ==
  /\ api \in {"Configurable", "Module"}
  /\ modules = << >>
  /\ modulesMap = {}
  /\ pc = "idle"
  /\ order = << >>
  /\ i = 0
  /\ args = << >>
  /\ entry = "-"
  /\ err = nil
  /\ log = << >>
  /\ flag = ""
  /\ db = <<"-">>
  /\ started = {}

\* Install of the Configurable API: append, no check
InstallC(ms) ==
  /\ api = "Configurable"
  /\ pc \in {"idle", "done"}
  /\ Len(modules) + Len(ms) <= MaxModules
  /\ modules' = modules \o ms
  /\ pc' = "idle"
  /\ order' = << >>
  /\ i' = 0
  /\ entry' = "-"
  /\ err' = nil
  /\ log' = << >>
  /\ db' = <<"-">>
  /\ UNCHANGED <<api, modulesMap, args, flag, started>>

\* kingpin's Parse: an argument that is no registered flag is a usage error
ParseOK(a) == \A k \in DOMAIN a : a[k] = "--test=flag"

\* what Parse leaves in the string bound to --test: the value given in the
\* arguments; without the flag in the arguments the parser either leaves the
\* string as it is or puts the empty default back (the parser is not part of
\* this repository, both are allowed here); a failed Parse leaves it as it is
ParseFlag(a, old) ==
  IF ~ParseOK(a) THEN {old}
  ELSE IF \E k \in DOMAIN a : a[k] = "--test=flag" THEN {"flag"}
  ELSE {old, ""}

\* the providers of the test modules: testModuleB.ProvideURI, testModuleA.ProvideDB
ProvideURI == "postgres://127.0.0.1"
ProvideDB(uri, test) == <<"DB:", uri, ":", test>>

\* an injector that built the provided values when the modules were
\* registered, before Parse wrote the flag
Inject_BeforeParse(registered, test) ==
  IF {"A", "B"} \subseteq Range(registered)
    THEN ProvideDB(ProvideURI, "")
    ELSE <<"-">>

\* the DB the injector builds when the entry point is called: the providers
\* run at that call, on the registered modules' fields as they are then
Inject(registered, test) ==
  IF {"A", "B"} \subseteq Range(registered)
    THEN ProvideDB(ProvideURI, test)
    ELSE <<"-">>

\* the state a returning RunWithArgs leaves: its result and no loop position
Return(e, calls) ==
  /\ pc' = "done"
  /\ err' = e
  /\ log' = calls
  /\ i' = 0

\* RunWithArgs that looks for the Start method after binding the Application
RunWithArgsC_BindsFirst(a, module) ==
  /\ api = "Configurable"
  /\ pc \in {"idle", "done"}
  /\ args' = a
  /\ entry' = module
  /\ IF module \notin StartTypes
       THEN /\ Return(Error("no Start(...) method on application module"),
                   <<Call("Bind", "Application", FALSE)>>)
            /\ order' = << >>
       ELSE /\ log' = <<Call("Bind", "Application", FALSE)>>
            /\ order' = Append(modules, module)
            /\ i' = 1
            /\ pc' = "configure"
            /\ err' = nil
  /\ db' = <<"-">>
  /\ UNCHANGED <<api, modules, modulesMap, flag, started>>

\* RunWithArgs that appends the entry-point module to a.modules itself
RunWithArgsC_AppendsInPlace(a, module) ==
  /\ api = "Configurable"
  /\ pc \in {"idle", "done"}
  /\ args' = a
  /\ entry' = module
  /\ IF module \notin StartTypes
       THEN /\ Return(Error("no Start(...) method on application module"), << >>)
            /\ order' = << >>
            /\ modules' = modules
       ELSE /\ log' = <<Call("Bind", "Application", FALSE)>>
            /\ modules' = Append(modules, module)
            /\ order' = modules'
            /\ i' = 1
            /\ pc' = "configure"
            /\ err' = nil
  /\ db' = <<"-">>
  /\ UNCHANGED <<api, modulesMap, flag, started>>

\* RunWithArgs of the Configurable API, up to the configure loop
RunWithArgsC(a, module) ==
  /\ api = "Configurable"
  /\ pc \in {"idle", "done"}
  /\ args' = a
  /\ entry' = module
  /\ IF module \notin StartTypes
       THEN /\ Return(Error("no Start(...) method on application module"), << >>)
            /\ order' = << >>
       ELSE /\ log' = <<Call("Bind", "Application", FALSE)>>
            /\ order' = Append(modules, module)
            /\ i' = 1
            /\ pc' = "configure"
            /\ err' = nil
  /\ db' = <<"-">>
  /\ UNCHANGED <<api, modules, modulesMap, flag, started>>

\* a configure loop that also calls the module's Start right after its Configure
ConfigureC_StartsInLoop ==
  /\ api = "Configurable"
  /\ pc = "configure"
  /\ i <= Len(order)
  /\ LET m == order[i]
         provided == Append(log, Call("Providers", m, FALSE))
         configured == IF m \in ConfigurableTypes
                         THEN Append(provided, Call("Configure", m, FALSE))
                         ELSE provided
     IN \/ Return(Error("injector.Install"), Append(log, Call("Providers", m, TRUE)))
        \/ /\ m \in ConfigurableTypes
           /\ Return(Error("Configure"), Append(provided, Call("Configure", m, TRUE)))
        \/ Return(Error("Struct"), configured)
        \/ /\ log' = IF m \in StartTypes
                        THEN Append(configured, Call("Start", m, FALSE))
                        ELSE configured
           /\ i' = i + 1
           /\ pc' = IF i = Len(order) THEN "parse" ELSE "configure"
           /\ err' = nil
  /\ UNCHANGED <<api, modules, modulesMap, order, args, entry, flag, db, started>>

\* one iteration of the configure loop: injector.Install, Configure, a.Struct
ConfigureC ==
  /\ api = "Configurable"
  /\ pc = "configure"
  /\ i <= Len(order)
  /\ LET m == order[i]
         provided == Append(log, Call("Providers", m, FALSE))
         configured == IF m \in ConfigurableTypes
                         THEN Append(provided, Call("Configure", m, FALSE))
                         ELSE provided
     IN \/ Return(Error("injector.Install"), Append(log, Call("Providers", m, TRUE)))
        \/ /\ m \in ConfigurableTypes
           /\ Return(Error("Configure"), Append(provided, Call("Configure", m, TRUE)))
        \/ Return(Error("Struct"), configured)
        \/ /\ log' = configured
           /\ i' = i + 1
           /\ pc' = IF i = Len(order) THEN "parse" ELSE "configure"
           /\ err' = nil
  /\ UNCHANGED <<api, modules, modulesMap, order, args, entry, flag, db, started>>

\* a.Parse(args), then injector.Bind(SelectedCommand(command))
ParseC ==
  /\ api = "Configurable"
  /\ pc = "parse"
  /\ IF ~ParseOK(args)
       THEN Return(Error("Parse"), Append(log, Call("Parse", "-", TRUE)))
       ELSE LET parsed == Append(log, Call("Parse", "-", FALSE))
            IN \/ Return(Error("Bind"), Append(parsed, Call("BindCommand", "-", TRUE)))
               \/ /\ log' = Append(parsed, Call("BindCommand", "-", FALSE))
                  /\ i' = 1
                  /\ pc' = "start"
                  /\ err' = nil
  /\ flag' \in ParseFlag(args, flag)
  /\ UNCHANGED <<api, modules, modulesMap, order, args, entry, db, started>>

\* a Start loop that calls the module's Configure again after its Start
StartC_ThenConfigures ==
  /\ api = "Configurable"
  /\ pc = "start"
  /\ i <= Len(order) - 1
  /\ LET m == order[i]
     IN IF m \in StartTypes
          THEN \/ Return(Error("Start"), Append(log, Call("Start", m, TRUE)))
               \/ /\ log' = log \o <<Call("Start", m, FALSE), Call("Configure", m, FALSE)>>
                  /\ i' = i + 1
                  /\ UNCHANGED <<pc, err>>
          ELSE /\ i' = i + 1
               /\ UNCHANGED <<pc, err, log>>
  /\ started' = IF order[i] \in StartTypes THEN started \cup {order[i]} ELSE started
  /\ UNCHANGED <<api, modules, modulesMap, order, args, entry, flag, db>>

\* a Start loop over the whole local list, the entry-point module included
StartC_IncludesEntry ==
  /\ api = "Configurable"
  /\ pc = "start"
  /\ i <= Len(order)
  /\ LET m == order[i]
     IN IF m \in StartTypes
          THEN \/ Return(Error("Start"), Append(log, Call("Start", m, TRUE)))
               \/ /\ log' = Append(log, Call("Start", m, FALSE))
                  /\ i' = i + 1
                  /\ UNCHANGED <<pc, err>>
          ELSE /\ i' = i + 1
               /\ UNCHANGED <<pc, err, log>>
  /\ started' = IF order[i] \in StartTypes THEN started \cup {order[i]} ELSE started
  /\ UNCHANGED <<api, modules, modulesMap, order, args, entry, flag, db>>

\* one iteration of the Start loop over modules[:len(modules)-1]
StartC ==
  /\ api = "Configurable"
  /\ pc = "start"
  /\ i <= Len(order) - 1
  /\ LET m == order[i]
     IN IF m \in StartTypes
          THEN \/ Return(Error("Start"), Append(log, Call("Start", m, TRUE)))
               \/ /\ log' = Append(log, Call("Start", m, FALSE))
                  /\ i' = i + 1
                  /\ UNCHANGED <<pc, err>>
          ELSE /\ i' = i + 1
               /\ UNCHANGED <<pc, err, log>>
  /\ started' = IF order[i] \in StartTypes THEN started \cup {order[i]} ELSE started
  /\ UNCHANGED <<api, modules, modulesMap, order, args, entry, flag, db>>

\* the entry point: injector.Call(start.Interface()); its error is kept in err
RunC ==
  /\ api = "Configurable"
  /\ pc = "start"
  /\ i = Len(order)
  /\ \E failed \in BOOLEAN :
       /\ log' = Append(log, Call("Run", entry, failed))
       /\ err' = IF failed THEN Error("Run") ELSE nil
  /\ pc' = "stop"
  /\ i' = Len(modules)
  /\ db' = Inject(order, flag)
  /\ UNCHANGED <<api, modules, modulesMap, order, args, entry, flag, started>>

\* a Stop loop that ends at the first Stop that returns an error
StopC_BreaksOnError ==
  /\ api = "Configurable"
  /\ pc = "stop"
  /\ i >= 1
  /\ LET m == modules[i]
     IN IF m \in StopTypes
          THEN \E failed \in BOOLEAN :
                 /\ log' = Append(log, Call("Stop", m, failed))
                 /\ i' = IF failed THEN 0 ELSE i - 1
          ELSE /\ log' = log
               /\ i' = i - 1
  /\ started' = IF modules[i] \in StopTypes THEN started \cup {modules[i]} ELSE started
  /\ UNCHANGED <<api, modules, modulesMap, pc, order, args, entry, err, flag, db>>

\* a Stop loop that keeps the error of a failed Stop as the result
StopC_ReturnsStopError ==
  /\ api = "Configurable"
  /\ pc = "stop"
  /\ i >= 1
  /\ LET m == modules[i]
     IN IF m \in StopTypes
          THEN \E failed \in BOOLEAN :
                 /\ log' = Append(log, Call("Stop", m, failed))
                 /\ err' = IF failed THEN Error("Stop") ELSE err
          ELSE /\ log' = log
               /\ err' = err
  /\ i' = i - 1
  /\ started' = IF modules[i] \in StopTypes THEN started \cup {modules[i]} ELSE started
  /\ UNCHANGED <<api, modules, modulesMap, pc, order, args, entry, flag, db>>

\* one iteration of the Stop loop, from the last installed module down
StopC ==
  /\ api = "Configurable"
  /\ pc = "stop"
  /\ i >= 1
  /\ LET m == modules[i]
     IN IF m \in StopTypes
          THEN \E failed \in BOOLEAN : log' = Append(log, Call("Stop", m, failed))
          ELSE log' = log
  /\ i' = i - 1
  /\ started' = IF modules[i] \in StopTypes THEN started \cup {modules[i]} ELSE started
  /\ UNCHANGED <<api, modules, modulesMap, pc, order, args, entry, err, flag, db>>

\* return err after the Stop loop
ReturnC ==
  /\ api = "Configurable"
  /\ pc = "stop"
  /\ i = 0
  /\ pc' = "done"
  /\ UNCHANGED <<api, modules, modulesMap, order, i, args, entry, err, log, flag, db, started>>

\* ---- the Module API (src/app.go lines 178-402) ----

\* the types that satisfy the Module interface, and what Dependencies() may return
Modules == ModuleTypes \cap ConfigurableTypes
ModuleValues == [type : Modules, deps : InjSeqs(Modules, MaxDeps)]

\* the types of the modules in the map (the keys of topoSortModules' installed)
Installed(deps) == {m.type : m \in deps}

\* an Install that configures the module as it adds it
InstallM_Configures(module) ==
  /\ api = "Module"
  /\ pc \in {"idle", "done"}
  /\ Cardinality(modulesMap) < MaxModules
  /\ IF \E m \in modulesMap : m.type = module.type
       THEN /\ pc' = "panic"
            /\ err' = Error("%s is already installed")
            /\ log' = << >>
            /\ UNCHANGED modulesMap
       ELSE /\ pc' = "idle"
            /\ err' = nil
            /\ log' = <<Call("Dependencies", module.type, FALSE),
                      Call("Configure", module.type, FALSE)>>
            /\ modulesMap' = modulesMap \cup {module}
  /\ order' = << >>
  /\ i' = 0
  /\ entry' = "-"
  /\ db' = <<"-">>
  /\ UNCHANGED <<api, modules, args, flag, started>>

\* Install of the Module API with one module. Install(m1, m2, ...) runs this
\* body once per argument and keeps nothing from one iteration to the next, so
\* it is Install(m1) followed by Install(m2), ...; a panic at an argument
\* leaves the arguments before it in the map.
InstallM(module) ==
  /\ api = "Module"
  /\ pc \in {"idle", "done"}
  /\ Cardinality(modulesMap) < MaxModules
  /\ IF \E m \in modulesMap : m.type = module.type
       THEN /\ pc' = "panic"
            /\ err' = Error("%s is already installed")
            /\ log' = << >>
            /\ UNCHANGED modulesMap
       ELSE /\ pc' = "idle"
            /\ err' = nil
            /\ log' = <<Call("Dependencies", module.type, FALSE)>>
            /\ modulesMap' = modulesMap \cup {module}
  /\ order' = << >>
  /\ i' = 0
  /\ entry' = "-"
  /\ db' = <<"-">>
  /\ UNCHANGED <<api, modules, args, flag, started>>

\* ScanEdges without the "still in graphUnsorted" test
RECURSIVE ScanEdges_NoFound(_, _, _, _)
ScanEdges_NoFound(installed, graphUnsorted, edges, k) ==
  IF k > Len(edges) THEN [kind |-> "free", edge |-> "-"]
  ELSE IF edges[k] \notin installed THEN [kind |-> "missing", edge |-> edges[k]]
  ELSE ScanEdges_NoFound(installed, graphUnsorted, edges, k + 1)

\* the scan of one node's edges: the first edge that is not installed is an
\* error, the first edge still in graphUnsorted stops the scan
RECURSIVE ScanEdges(_, _, _, _)
ScanEdges(installed, graphUnsorted, edges, k) ==
  IF k > Len(edges) THEN [kind |-> "free", edge |-> "-"]
  ELSE IF edges[k] \notin installed THEN [kind |-> "missing", edge |-> edges[k]]
  ELSE IF edges[k] \in DOMAIN graphUnsorted THEN [kind |-> "found", edge |-> edges[k]]
  ELSE ScanEdges(installed, graphUnsorted, edges, k + 1)

\* one pass of "for node, edges := range graphUnsorted": the nodes not yet
\* visited are visited in any order (map iteration); the outcomes of the pass
RECURSIVE Pass(_, _, _, _, _)
Pass(installed, todo, graphUnsorted, graphSorted, acyclic) ==
  IF todo = {}
    THEN {[kind |-> "end", graphUnsorted |-> graphUnsorted, graphSorted |-> graphSorted,
           acyclic |-> acyclic, edge |-> "-", node |-> "-"]}
    ELSE UNION {
      LET scan == ScanEdges(installed, graphUnsorted, graphUnsorted[node], 1)
      IN IF scan.kind = "missing"
           THEN {[kind |-> "missing", graphUnsorted |-> graphUnsorted,
                  graphSorted |-> graphSorted, acyclic |-> acyclic,
                  edge |-> scan.edge, node |-> node]}
         ELSE IF scan.kind = "found"
           THEN Pass(installed, todo \ {node}, graphUnsorted, graphSorted, acyclic)
         ELSE Pass(installed, todo \ {node},
                   [n \in DOMAIN graphUnsorted \ {node} |-> graphUnsorted[n]],
                   Append(graphSorted, node), TRUE)
      : node \in todo}

\* an outer loop that tests len(graphUnsorted) after the pass, not before it
RECURSIVE SortLoop_TestsAfterPass(_, _, _, _)
SortLoop_TestsAfterPass(installed, graphUnsorted, graphSorted, passes) ==
  UNION {
    IF p.kind = "missing"
      THEN {[sorted |-> << >>, passes |-> passes + 1,
             err |-> [msg |-> "module %s is not available to %s",
                      edge |-> p.edge, node |-> p.node]]}
    ELSE IF ~p.acyclic
      THEN {[sorted |-> << >>, passes |-> passes + 1,
             err |-> Error("cyclic module dependency")]}
    ELSE IF DOMAIN p.graphUnsorted = {}
      THEN {[sorted |-> p.graphSorted, err |-> nil, passes |-> passes + 1]}
    ELSE SortLoop_TestsAfterPass(installed, p.graphUnsorted, p.graphSorted, passes + 1)
    : p \in Pass(installed, DOMAIN graphUnsorted, graphUnsorted, graphSorted, FALSE)}

\* the outer loop "for len(graphUnsorted) != 0"
RECURSIVE SortLoop(_, _, _, _)
SortLoop(installed, graphUnsorted, graphSorted, passes) ==
  IF DOMAIN graphUnsorted = {}
    THEN {[sorted |-> graphSorted, err |-> nil, passes |-> passes]}
    ELSE UNION {
      IF p.kind = "missing"
        THEN {[sorted |-> << >>, passes |-> passes + 1,
               err |-> [msg |-> "module %s is not available to %s",
                        edge |-> p.edge, node |-> p.node]]}
      ELSE IF ~p.acyclic
        THEN {[sorted |-> << >>, passes |-> passes + 1,
               err |-> Error("cyclic module dependency")]}
      ELSE SortLoop(installed, p.graphUnsorted, p.graphSorted, passes + 1)
      : p \in Pass(installed, DOMAIN graphUnsorted, graphUnsorted, graphSorted, FALSE)}

\* topoSortModules: every result the map iteration order allows
topoSortModules(deps) ==
  LET installed == {m.type : m \in deps}
      graphUnsorted == [t \in installed |-> (CHOOSE m \in deps : m.type = t).deps]
  IN SortLoop(installed, graphUnsorted, << >>, 0)

\* RunWithArgs that goes on to configure when topoSortModules failed
RunWithArgsM_IgnoresError(a) ==
  /\ api = "Module"
  /\ pc \in {"idle", "done"}
  /\ args' = a
  /\ entry' = "run"
  /\ \E r \in topoSortModules(modulesMap) :
       /\ log' = <<Call("Bind", "Application", FALSE), Call("Bind", "Injector", FALSE)>>
       /\ order' = IF r.err # nil
                     THEN CHOOSE s \in InjSeqs(Installed(modulesMap), MaxModules) :
                            Range(s) = Installed(modulesMap)
                     ELSE r.sorted
       /\ i' = 1
       /\ pc' = IF order' = << >> THEN "parse" ELSE "configure"
       /\ err' = nil
  /\ db' = <<"-">>
  /\ UNCHANGED <<api, modules, modulesMap, flag, started>>

\* RunWithArgs of the Module API, up to the configure loop
RunWithArgsM(a) ==
  /\ api = "Module"
  /\ pc \in {"idle", "done"}
  /\ args' = a
  /\ entry' = "run"
  /\ \E r \in topoSortModules(modulesMap) :
       LET bound == <<Call("Bind", "Application", FALSE), Call("Bind", "Injector", FALSE)>>
       IN IF r.err # nil
            THEN /\ Return(r.err, bound)
                 /\ order' = << >>
            ELSE /\ log' = bound
                 /\ order' = r.sorted
                 /\ i' = 1
                 /\ pc' = IF r.sorted = << >> THEN "parse" ELSE "configure"
                 /\ err' = nil
  /\ db' = <<"-">>
  /\ UNCHANGED <<api, modules, modulesMap, flag, started>>

\* a configure loop that goes on to the next module when Configure failed
ConfigureM_SwallowsError ==
  /\ api = "Module"
  /\ pc = "configure"
  /\ i <= Len(order)
  /\ LET m == order[i]
         provided == Append(log, Call("Providers", m, FALSE))
     IN \/ Return(Error("injector.Install"), Append(log, Call("Providers", m, TRUE)))
        \/ \E failed \in BOOLEAN :
             /\ log' = Append(provided, Call("Configure", m, failed))
             /\ i' = i + 1
             /\ pc' = IF i = Len(order) THEN "parse" ELSE "configure"
             /\ err' = nil
  /\ UNCHANGED <<api, modules, modulesMap, order, args, entry, flag, db, started>>

\* one iteration of the configure loop: injector.Install, then Configure
ConfigureM ==
  /\ api = "Module"
  /\ pc = "configure"
  /\ i <= Len(order)
  /\ LET m == order[i]
         provided == Append(log, Call("Providers", m, FALSE))
     IN \/ Return(Error("injector.Install"), Append(log, Call("Providers", m, TRUE)))
        \/ Return(Error("Configure"), Append(provided, Call("Configure", m, TRUE)))
        \/ /\ log' = Append(provided, Call("Configure", m, FALSE))
           /\ i' = i + 1
           /\ pc' = IF i = Len(order) THEN "parse" ELSE "configure"
           /\ err' = nil
  /\ UNCHANGED <<api, modules, modulesMap, order, args, entry, flag, db, started>>

\* a Parse whose error is not checked
ParseM_IgnoresError ==
  /\ api = "Module"
  /\ pc = "parse"
  /\ log' = Append(log, Call("Parse", "-", ~ParseOK(args)))
  /\ i' = 1
  /\ pc' = "start"
  /\ err' = nil
  /\ flag' \in ParseFlag(args, flag)
  /\ UNCHANGED <<api, modules, modulesMap, order, args, entry, db, started>>

\* a.Parse(args)
ParseM ==
  /\ api = "Module"
  /\ pc = "parse"
  /\ IF ~ParseOK(args)
       THEN Return(Error("Parse"), Append(log, Call("Parse", "-", TRUE)))
       ELSE /\ log' = Append(log, Call("Parse", "-", FALSE))
            /\ i' = 1
            /\ pc' = "start"
            /\ err' = nil
  /\ flag' \in ParseFlag(args, flag)
  /\ UNCHANGED <<api, modules, modulesMap, order, args, entry, db, started>>

\* a Start loop that walks the sorted modules from the last to the first
StartM_Reverse ==
  /\ api = "Module"
  /\ pc = "start"
  /\ i <= Len(order)
  /\ LET m == order[Len(order) + 1 - i]
     IN IF m \in StartTypes
          THEN \/ Return(Error("Start"), Append(log, Call("Start", m, TRUE)))
               \/ /\ log' = Append(log, Call("Start", m, FALSE))
                  /\ i' = i + 1
                  /\ UNCHANGED <<pc, err>>
          ELSE /\ i' = i + 1
               /\ UNCHANGED <<pc, err, log>>
  /\ started' = IF order[Len(order) + 1 - i] \in StartTypes
                  THEN started \cup {order[Len(order) + 1 - i]} ELSE started
  /\ UNCHANGED <<api, modules, modulesMap, order, args, entry, flag, db>>

\* one iteration of the Start loop over the sorted modules
StartM ==
  /\ api = "Module"
  /\ pc = "start"
  /\ i <= Len(order)
  /\ LET m == order[i]
     IN IF m \in StartTypes
          THEN \/ Return(Error("Start"), Append(log, Call("Start", m, TRUE)))
               \/ /\ log' = Append(log, Call("Start", m, FALSE))
                  /\ i' = i + 1
                  /\ UNCHANGED <<pc, err>>
          ELSE /\ i' = i + 1
               /\ UNCHANGED <<pc, err, log>>
  /\ started' = IF order[i] \in StartTypes THEN started \cup {order[i]} ELSE started
  /\ UNCHANGED <<api, modules, modulesMap, order, args, entry, flag, db>>

\* injector.Bind(SelectedCommand(command)), then injector.Call(run)
RunM ==
  /\ api = "Module"
  /\ pc = "start"
  /\ i > Len(order)
  /\ LET bound == Append(log, Call("BindCommand", "-", FALSE))
     IN \/ /\ Return(Error("Bind"), Append(log, Call("BindCommand", "-", TRUE)))
           /\ db' = <<"-">>
        \/ /\ Return(Error("Run"), Append(bound, Call("Run", entry, TRUE)))
           /\ db' = Inject(order, flag)
        \/ /\ Return(nil, Append(bound, Call("Run", entry, FALSE)))
           /\ db' = Inject(order, flag)
  /\ UNCHANGED <<api, modules, modulesMap, order, args, entry, flag, started>>

Next ==
  \/ \E ms \in UNION {[1..k -> ModuleTypes] : k \in 1..MaxArgs} : InstallC(ms)
  \/ \E a \in Args, module \in EntryTypes : RunWithArgsC(a, module)
  \/ ConfigureC
  \/ ParseC
  \/ StartC
  \/ RunC
  \/ StopC
  \/ ReturnC
  \/ \E module \in ModuleValues : InstallM(module)
  \/ \E a \in Args : RunWithArgsM(a)
  \/ ConfigureM
  \/ ParseM
  \/ StartM
  \/ RunM

Spec == Init /\ [][Next]_vars

\* ---- vocabulary of the properties ----

DependsOn(deps, t) == UNION {Range(m.deps) : m \in {x \in deps : x.type = t}}

RECURSIVE Closure(_, _)
Closure(deps, S) ==
  LET more == S \cup UNION {DependsOn(deps, t) : t \in S}
  IN IF more = S THEN S ELSE Closure(deps, more)

\* some module reaches its own type along declared dependencies
Cyclic(deps) == \E m \in deps : m.type \in Closure(deps, DependsOn(deps, m.type))
\* every declared dependency is installed
AllInstalled(deps) == \A m \in deps : Range(m.deps) \subseteq Installed(deps)

CyclicError == Error("cyclic module dependency")
IsMissingError(e) == e.msg = "module %s is not available to %s"

Pos(s, x) == CHOOSE k \in DOMAIN s : s[k] = x
Ops(l) == {l[k].op : k \in DOMAIN l}
Capabilities == {"Providers", "Configure", "Start", "Run", "Stop"}
\* a RunWithArgs of the Module API has been called on the current registry
RanM == api = "Module" /\ entry = "run"

\* C1: on a registry whose declared dependencies are all installed and acyclic,
\* every result of topoSortModules is error-free, holds each installed module
\* exactly once, and has each dependency before its dependent.
C1_TopoSortOrdersDag ==
  (api = "Module" /\ AllInstalled(modulesMap) /\ ~Cyclic(modulesMap)) =>
    \A r \in topoSortModules(modulesMap) :
      /\ r.err = nil
      /\ Len(r.sorted) = Cardinality(modulesMap)
      /\ Range(r.sorted) = Installed(modulesMap)
      /\ \A m \in modulesMap : \A d \in Range(m.deps) :
            Pos(r.sorted, d) < Pos(r.sorted, m.type)

\* a run on three installed modules forming a chain, resolved and ordered
C1_Witness ==
  /\ RanM /\ pc = "configure"
  /\ Len(order) = 3
  /\ \E a, b, c \in modulesMap :
       /\ a.deps = << >> /\ b.deps = <<a.type>> /\ c.deps = <<b.type>>
       /\ order = <<a.type, b.type, c.type>>

\* C2 as claimed: on a registry with a dependency cycle RunWithArgs returns the
\* cycle error and has invoked no capability of any module.
C2_Original ==
  (RanM /\ Cyclic(modulesMap)) =>
    /\ pc = "done"
    /\ err = CyclicError
    /\ Ops(log) \cap Capabilities = {}

\* C2 amended: on a registry with a dependency cycle RunWithArgs returns an
\* error of resolution and has invoked no capability of any module; the error
\* is the cycle error when every declared dependency is installed, and the
\* cycle error or the missing-dependency error otherwise.
C2_CycleFailsBeforeConfigure ==
  (RanM /\ Cyclic(modulesMap)) =>
    /\ pc = "done"
    /\ err = CyclicError \/ (IsMissingError(err) /\ ~AllInstalled(modulesMap))
    /\ Ops(log) \cap Capabilities = {}

\* a run that returned the cycle error on a module depending on its own type
C2_Witness ==
  /\ RanM /\ pc = "done" /\ err = CyclicError
  /\ AllInstalled(modulesMap)
  /\ \E m \in modulesMap : m.type \in Range(m.deps)

\* C3 as claimed: when some declared dependency is not installed, RunWithArgs
\* returns the missing-dependency error and has invoked no capability.
C3_MissingDependencyReported ==
  (RanM /\ ~AllInstalled(modulesMap)) =>
    /\ pc = "done"
    /\ IsMissingError(err)
    /\ Ops(log) \cap Capabilities = {}

\* C4 as claimed: no two modules of the registry have the same concrete type.
C4_NoDuplicateTypes ==
  /\ \A m1, m2 \in modulesMap : m1.type = m2.type => m1 = m2
  /\ \A a, b \in DOMAIN modules : a # b => modules[a] # modules[b]

\* the phase an invocation belongs to (0: none of the four phases nor Stop)
Phase(op) ==
  CASE op \in {"Providers", "Configure"} -> 1
    [] op = "Parse" -> 2
    [] op = "Start" -> 3
    [] op = "Run" -> 4
    [] op = "Stop" -> 5
    [] OTHER -> 0

\* C5: the invocations of one RunWithArgs come phase by phase: every
\* registration and Configure, then the one Parse, then every module Start,
\* then the one entry-point call, then every Stop.
C5_PhasesSequential ==
  /\ \A p, q \in DOMAIN log :
       (p < q /\ Phase(log[p].op) > 0 /\ Phase(log[q].op) > 0) =>
         Phase(log[p].op) <= Phase(log[q].op)
  /\ \A p, q \in DOMAIN log :
       (log[p].op = log[q].op /\ log[p].op \in {"Parse", "Run"}) => p = q

\* a finished run that went through all five kinds of invocation
C5_Witness ==
  /\ pc = "done"
  /\ {"Configure", "Parse", "Start", "Run", "Stop"} \subseteq Ops(log)
  /\ Len(modules) >= 2

\* C6: for every declared edge "M depends on D", D's providers are registered
\* and D is configured before M is configured, and D's Start (if it has one)
\* is called before M's Start.
C6_DependenciesFirst ==
  api = "Module" =>
    \A m \in modulesMap : \A d \in Range(m.deps) : \A q \in DOMAIN log :
      /\ (log[q].op = "Configure" /\ log[q].m = m.type) =>
           /\ \E p \in 1..(q - 1) : log[p] = Call("Providers", d, FALSE)
           /\ \E p \in 1..(q - 1) : log[p] = Call("Configure", d, FALSE)
      /\ (log[q].op = "Start" /\ log[q].m = m.type /\ d \in StartTypes) =>
           \E p \in 1..(q - 1) : log[p] = Call("Start", d, FALSE)

\* a finished run in which a module and its dependency were both started
C6_Witness ==
  /\ RanM /\ pc = "done"
  /\ \E m \in modulesMap : \E d \in Range(m.deps) :
       /\ Call("Start", m.type, FALSE) \in Range(log)
       /\ Call("Start", d, FALSE) \in Range(log)

\* C7: a Configure that returned an error is the last invocation of the run,
\* and the run has returned that error.
C7_ConfigureErrorReturns ==
  \A p \in DOMAIN log :
    (log[p].op = "Configure" /\ log[p].err) =>
      /\ p = Len(log)
      /\ pc = "done"
      /\ err = Error("Configure")

\* the first of several modules failed in Configure
C7_Witness ==
  /\ pc = "done"
  /\ Len(order) >= 2
  /\ Call("Configure", order[1], TRUE) \in Range(log)

\* C8: a Parse that failed is the last invocation of the run, and the run has
\* returned the parser's error.
C8_ParseErrorReturns ==
  \A p \in DOMAIN log :
    (log[p].op = "Parse" /\ log[p].err) =>
      /\ p = Len(log)
      /\ pc = "done"
      /\ err = Error("Parse")

\* parsing failed in a run with a module that has a Start method
C8_Witness ==
  /\ pc = "done"
  /\ Call("Parse", "-", TRUE) \in Range(log)
  /\ \E k \in DOMAIN order : order[k] \in StartTypes /\ order[k] \in ModuleTypes

\* C9 as claimed: a returned run whose configure phase succeeded (it reached
\* Parse) has invoked Stop on every installed module that has a Stop method.
C9_StopAlwaysRuns ==
  (api = "Configurable" /\ pc = "done" /\ "Parse" \in Ops(log)) =>
    \A k \in DOMAIN modules :
      modules[k] \in StopTypes => \E p \in DOMAIN log :
        log[p].op = "Stop" /\ log[p].m = modules[k]

\* C10 as claimed: with distinct modules installed, when a module's Start fails, no later Start and no entry
\* point follow, every module started before it that has a Stop method is
\* stopped before the run returns, and the failed module is not stopped.
C10_PartialStartTeardown ==
  (/\ api = "Configurable" /\ pc = "done"
   /\ \A a, b \in DOMAIN modules : a # b => modules[a] # modules[b]) =>
    \A q \in DOMAIN log :
      (log[q].op = "Start" /\ log[q].err) =>
        /\ \A p \in (q + 1)..Len(log) : log[p].op \notin {"Start", "Run"}
        /\ \A p \in 1..(q - 1) :
             (log[p].op = "Start" /\ log[p].m \in StopTypes) =>
               \E r \in (q + 1)..Len(log) : log[r].op = "Stop" /\ log[r].m = log[p].m
        /\ \A p \in (q + 1)..Len(log) :
             ~(log[p].op = "Stop" /\ log[p].m = log[q].m)

\* ---- Stop loop, result, SelectedCommand, providers ----

IsStopCall(c) == c.op = "Stop"
HasStop(m) == m \in StopTypes
Reverse(q) == [k \in 1..Len(q) |-> q[Len(q) + 1 - k]]
\* the modules Stop was invoked on, in the order of the invocations
Stopped(l) == LET calls == SelectSeq(l, IsStopCall) IN [k \in 1..Len(calls) |-> calls[k].m]
Count(op, m) == Cardinality({p \in DOMAIN log : log[p].op = op /\ log[p].m = m})

\* C11: when the Stop loop has run (the entry point was called and the run
\* returned), Stop was invoked on exactly the installed modules that have a
\* Stop method, in the reverse of the installation order, whatever each Stop
\* returned.
C11_StopReverseInstallOrder ==
  (api = "Configurable" /\ pc = "done" /\ "Run" \in Ops(log)) =>
    LET expected == Reverse(SelectSeq(modules, HasStop))
        actual == Stopped(log)
    IN /\ Len(actual) = Len(expected)
       /\ \A k \in 1..Len(actual) : actual[k] = expected[k]

\* a Stop returned an error and a Stop of an earlier-installed module followed
C11_Witness ==
  /\ api = "Configurable" /\ pc = "done"
  /\ Len(modules) = 3
  /\ \E p, q \in DOMAIN log :
       /\ p < q
       /\ log[p].op = "Stop" /\ log[p].err /\ log[q].op = "Stop"
       /\ log[p].m = modules[3] /\ log[q].m = modules[1] /\ modules[2] \notin StopTypes

\* the error RunWithArgs returns for a failed invocation
ErrorOf(op) ==
  CASE op = "Providers" -> Error("injector.Install")
    [] op = "Configure" -> Error("Configure")
    [] op = "Parse" -> Error("Parse")
    [] op = "BindCommand" -> Error("Bind")
    [] op = "Start" -> Error("Start")
    [] op = "Run" -> Error("Run")
    [] OTHER -> nil
Failed == {p \in DOMAIN log : log[p].err /\ log[p].op # "Stop"}

\* C12: the result of a run is the error of its first failed invocation other
\* than a Stop; when the entry point was called and nothing but Stop failed,
\* the result is nil. No Stop error is ever the result.
C12_ResultIsFirstError ==
  (pc \in {"stop", "done"}) =>
    /\ Failed # {} => err = ErrorOf(log[CHOOSE p \in Failed : \A q \in Failed : p <= q].op)
    /\ (Failed = {} /\ "Run" \in Ops(log)) => err = nil
    /\ err # Error("Stop")

\* a run whose entry point failed and whose Stop failed too returned the
\* entry point's error
C12_Witness ==
  /\ pc = "done" /\ err = Error("Run")
  /\ \E p \in DOMAIN log : log[p].op = "Stop" /\ log[p].err

\* C13 as claimed: SelectedCommand is bound at most once in a run and before
\* the first module Start and before the entry point.
C13_CommandBoundBeforeStart ==
  /\ \A p, q \in DOMAIN log : (log[p].op = "BindCommand" /\ log[q].op = "BindCommand") => p = q
  /\ \A q \in DOMAIN log :
       log[q].op \in {"Start", "Run"} =>
         \E p \in 1..(q - 1) : log[p] = Call("BindCommand", "-", FALSE)

C15_OncePerRun ==
  /\ \A m \in ModuleTypes \cup EntryTypes :
       /\ Count("Configure", m) <= 1
       /\ Count("Start", m) <= 1
       /\ Count("Stop", m) <= 1
  /\ (pc = "done" /\ err = nil /\ entry # "-") =>
       /\ \A m \in Range(order) \cap ConfigurableTypes : Count("Configure", m) = 1
       /\ Count("Run", entry) = 1
       /\ Count("Start", entry) = 0

\* C16 as claimed: an Install has invoked nothing.
C16_Original ==
  pc \in {"idle", "panic"} => log = << >>

\* C16 amended: the only capability an Install invokes is the dependency
\* declaration of the module it adds (the Install of the Module API); it
\* invokes no Configure, Start, Stop or provider, and the Install of the
\* Configurable API invokes nothing.
C16_InstallOnlyDeclares ==
  pc \in {"idle", "panic"} =>
    /\ Ops(log) \subseteq {"Dependencies"}
    /\ \A p \in DOMAIN log : \E m \in modulesMap : m.type = log[p].m
    /\ api = "Configurable" => log = << >>

\* a second module was installed through the Module API
C16_Witness ==
  /\ api = "Module" /\ pc = "idle"
  /\ Cardinality(modulesMap) = 2
  /\ Ops(log) = {"Dependencies"}

\* C17 as claimed: all resolutions of one registry give the same sequence.
C17_Deterministic ==
  api = "Module" =>
    \A r1, r2 \in topoSortModules(modulesMap) : r1.sorted = r2.sorted

\* the invocations a step adds
NewCalls ==
  IF Len(log') >= Len(log) /\ SubSeq(log', 1, Len(log)) = log
    THEN {log'[k] : k \in (Len(log) + 1)..Len(log')}
    ELSE Range(log')

\* C18 as claimed: over all calls on one Application, no module whose Start or
\* Stop was invoked is configured or started afterwards.
C18_Original ==
  [][\A c \in NewCalls : c.op \in {"Configure", "Start"} => c.m \notin started]_vars

\* C18 amended: within one RunWithArgs call no module is configured after its
\* Start or Stop was invoked and none is started after its Stop was invoked;
\* a later RunWithArgs on the same Application configures and starts the
\* installed modules again.
C18_ForwardWithinRun ==
  \A p, q \in DOMAIN log :
    (p < q /\ log[p].m = log[q].m) =>
      /\ ~(log[p].op \in {"Start", "Stop"} /\ log[q].op = "Configure")
      /\ ~(log[p].op = "Stop" /\ log[q].op = "Start")

\* a module started by an earlier run is configured again
C18_Witness ==
  /\ pc = "configure"
  /\ \E m \in started :
       /\ Call("Configure", m, FALSE) \in Range(log)
       /\ Count("Start", m) = 0

\* the module types a resolution error names
NamesIn(e) == {e.edge, e.node} \ {"-"}
\* the modules no pass can remove: those that reach a module on a cycle
Unresolved(deps) ==
  {t \in Installed(deps) :
     \E u \in Closure(deps, {t}) : u \in Closure(deps, DependsOn(deps, u))}

\* C19 as claimed: the cycle error names the modules still unresolved, the
\* missing-dependency error names the missing type and the module requiring it.
C19_ErrorsNameModules ==
  (RanM /\ pc = "done") =>
    /\ err.msg = CyclicError.msg => NamesIn(err) = Unresolved(modulesMap)
    /\ IsMissingError(err) =>
         /\ err.edge \notin Installed(modulesMap)
         /\ \E m \in modulesMap : m.type = err.node /\ err.edge \in Range(m.deps)

\* C20: a RunWithArgs whose entry-point module has no Start method has
\* returned the 'no Start(...) method' error and invoked nothing, and only such
\* a run returns that error.
C20_NoStartMethod ==
  LET noStart == Error("no Start(...) method on application module")
  IN /\ (api = "Configurable" /\ entry # "-" /\ entry \notin StartTypes) =>
          /\ pc = "done"
          /\ err = noStart
          /\ log = << >>
          /\ db = <<"-">>
     /\ err = noStart => entry \notin StartTypes

\* such a run on an Application with modules installed
C20_Witness ==
  /\ api = "Configurable" /\ pc = "done"
  /\ entry = "Bare"
  /\ Len(modules) >= 2
  /\ err = Error("no Start(...) method on application module")

\* ---- termination of the resolver, the registry, the entry-point module ----

\* the working graph of topoSortModules when the nodes in S are left in it
GraphOf(deps, S) == [t \in S |-> (CHOOSE m \in deps : m.type = t).deps]

\* C21: every pass of the outer loop of topoSortModules on a non-empty working
\* graph ends in an error or has removed at least one module, and every result
\* of topoSortModules (a sequence or an error) is reached after at most as many
\* passes as there are installed modules.
C21_TopoSortTerminates ==
  api = "Module" =>
    /\ \A S \in SUBSET Installed(modulesMap) : S # {} =>
         \A p \in Pass(Installed(modulesMap), S, GraphOf(modulesMap, S), << >>, FALSE) :
           \/ p.kind = "missing"
           \/ ~p.acyclic
           \/ (DOMAIN p.graphUnsorted \subseteq S /\ DOMAIN p.graphUnsorted # S)
    /\ \A r \in topoSortModules(modulesMap) : r.passes <= Cardinality(modulesMap)

\* a run on a chain of three modules that some iteration order resolves only
\* in three passes, one module per pass
C21_Witness ==
  /\ RanM /\ pc = "configure"
  /\ Cardinality(modulesMap) = 3
  /\ \E r \in topoSortModules(modulesMap) :
       r.err = nil /\ r.passes = 3 /\ r.sorted = order

\* a step of an Install ends in "idle" or "panic"; every other step is a step
\* of a RunWithArgs
RunWithArgsStep == pc' \notin {"idle", "panic"}
Running == pc \in {"configure", "parse", "start", "stop"}

\* C22: no step of a RunWithArgs, whatever the run's outcome, changes the
\* installed modules, their order or their recorded dependency lists; the list
\* a run of the Configurable API walks is the installed modules followed by
\* the entry-point module, which is not added to the installed modules; the
\* list a run of the Module API walks holds exactly the installed modules.
C22_RegistryUnchanged ==
  /\ [][RunWithArgsStep => (modules' = modules /\ modulesMap' = modulesMap)]_vars
  /\ []((api = "Configurable" /\ Running) =>
          (order = Append(modules, entry) /\ Len(modules) = Len(order) - 1))
  /\ []((api = "Module" /\ Running) =>
          (Range(order) = Installed(modulesMap) /\ Len(order) = Cardinality(modulesMap)))

\* a later run on an Application whose modules an earlier run started walks
\* the two installed modules and the entry-point module
C22_Witness ==
  /\ api = "Configurable" /\ pc = "configure" /\ i = 1
  /\ started # {}
  /\ Len(modules) = 2
  /\ order = <<modules[1], modules[2], entry>>

\* C23: in a run of the Configurable API the entry-point module (a module that
\* is not itself installed) is registered and configured after every installed
\* module and nothing is configured after it; the Start loop never invokes
\* its Start, which is invoked once as the entry point, after the Start of
\* every installed module that has one; and its Stop is never invoked.
C23_EntryModuleApart ==
  (api = "Configurable" /\ entry # "-") =>
    /\ \A q \in DOMAIN log :
         (log[q].op \in {"Providers", "Configure"} /\ log[q].m = entry) =>
           /\ \A k \in DOMAIN modules :
                /\ \E p \in 1..(q - 1) : log[p] = Call("Providers", modules[k], FALSE)
                /\ modules[k] \in ConfigurableTypes =>
                     \E p \in 1..(q - 1) : log[p] = Call("Configure", modules[k], FALSE)
           /\ \A p \in (q + 1)..Len(log) :
                log[p].op \in {"Providers", "Configure"} => log[p].m = entry
    /\ pc \in {"parse", "start", "stop"} =>
         /\ Count("Providers", entry) = 1
         /\ Count("Configure", entry) = IF entry \in ConfigurableTypes THEN 1 ELSE 0
    /\ Count("Start", entry) = 0
    /\ Count("Run", entry) <= 1
    /\ \A q \in DOMAIN log :
         log[q].op = "Run" =>
           /\ log[q].m = entry
           /\ \A k \in DOMAIN modules : modules[k] \in StartTypes =>
                \E p \in 1..(q - 1) : log[p] = Call("Start", modules[k], FALSE)
    /\ Count("Stop", entry) = 0
    /\ \A p \in DOMAIN log : log[p].op = "Stop" => log[p].m \in Range(modules)

\* a finished run whose entry-point module has a Stop method, on two installed
\* modules of which one was stopped
C23_Witness ==
  /\ api = "Configurable" /\ pc = "done"
  /\ entry \in StopTypes
  /\ Len(modules) = 2
  /\ Count("Run", entry) = 1
  /\ "Stop" \in Ops(log)
  /\ \E k \in DOMAIN modules : Call("Start", modules[k], FALSE) \in Range(log)
====
